---- MODULE Spec2Model ----
(***************************************************************************)
(* Model of admin.py: the Streamlit admin page that rebuilds the per-style *)
(* FAISS index from the PDFs stored under the style's S3 prefix.           *)
(*                                                                         *)
(* Strings that the code inspects (object keys, prefixes, file names) are  *)
(* sequences of one-character strings, so that startswith, lower,          *)
(* endswith, basename and concatenation are computed and not assumed.      *)
(* Page and chunk texts are represented by their lengths in characters.    *)
(***************************************************************************)
EXTENDS Naturals, Sequences, FiniteSets, TLC

VARIABLES bucketExists, objects, scratch, run, active

vars == <<bucketExists, objects, scratch, run, active>>

----------------------------------------------------------------------------
(* Bounds of the model *)

\* script executions (Streamlit reruns) per session
MaxRuns == 2

\* split_text taken alone: characters of a page, pages of a call, and the
\* largest chunk_size (chunk_overlap ranges below the chunk_size)
MaxPageLen == 6

MaxPages == 2

MaxChunkSize == 4

----------------------------------------------------------------------------
(* String helpers *)

\* the characters in use, in ASCII order
Alphabet == <<".", "/", "D", "F", "P", "_", "a", "b", "c", "d", "e", "f",
              "i", "k", "l", "m", "n", "o", "p", "r", "s", "t", "x", "y">>

Ord(c) == CHOOSE n \in 1..Len(Alphabet) : Alphabet[n] = c

\* str.lower() on one character
LowerChar(c) == CASE c = "D" -> "d"
                  [] c = "F" -> "f"
                  [] c = "P" -> "p"
                  [] OTHER -> c

\* str.lower()
Lower(str) == [n \in 1..Len(str) |-> LowerChar(str[n])]

\* str.startswith(prefix)
StartsWith(str, prefix) ==
    /\ Len(prefix) <= Len(str)
    /\ SubSeq(str, 1, Len(prefix)) = prefix

\* str.endswith(suffix)
EndsWith(str, suffix) ==
    /\ Len(suffix) <= Len(str)
    /\ SubSeq(str, Len(str) - Len(suffix) + 1, Len(str)) = suffix

\* os.path.basename: what follows the last "/"
RECURSIVE Basename(_)
Basename(path) ==
    IF \E n \in 1..Len(path) : path[n] = "/"
    THEN Basename(SubSeq(path, (CHOOSE n \in 1..Len(path) : path[n] = "/") + 1, Len(path)))
    ELSE path

\* byte order of two keys, the order in which S3 lists them
RECURSIVE KeyLess(_, _)
KeyLess(a, b) ==
    IF a = <<>> THEN b # <<>>
    ELSE IF b = <<>> THEN FALSE
    ELSE IF a[1] # b[1] THEN Ord(a[1]) < Ord(b[1])
    ELSE KeyLess(Tail(a), Tail(b))

\* the keys of a set in listing order
RECURSIVE SortKeys(_)
SortKeys(keys) ==
    IF keys = {} THEN <<>>
    ELSE LET first == CHOOSE k \in keys : \A o \in keys \ {k} : KeyLess(k, o)
         IN <<first>> \o SortKeys(keys \ {first})

\* the first n elements of a sequence
Take(seq, n) == SubSeq(seq, 1, IF Len(seq) < n THEN Len(seq) ELSE n)

\* a function extended or overwritten at one point (a put of a file or object)
Put(f, k, v) == [x \in DOMAIN f \cup {k} |-> IF x = k THEN v ELSE f[x]]

----------------------------------------------------------------------------
(* The program's constants *)

StyleChoices == {"Email Style", "Normal Style", "Report Style", "Feedback Style"}

prefix_map(style_choice) ==
    CASE style_choice = "Email Style"    -> <<"m", "a", "i", "l", "/">>
      [] style_choice = "Normal Style"   -> <<"n", "o", "r", "m", "a", "l", "/">>
      [] style_choice = "Report Style"   -> <<"r", "e", "p", "o", "r", "t", "/">>
      [] style_choice = "Feedback Style" -> <<"f", "e", "e", "d", "b", "a", "c", "k", "/">>

style_key_map(style_choice) ==
    CASE style_choice = "Email Style"    -> <<"m", "a", "i", "l">>
      [] style_choice = "Normal Style"   -> <<"n", "o", "r", "m", "a", "l">>
      [] style_choice = "Report Style"   -> <<"r", "e", "p", "o", "r", "t">>
      [] style_choice = "Feedback Style" -> <<"f", "e", "e", "d", "b", "a", "c", "k">>

StyleKeys == {style_key_map(c) : c \in StyleChoices}

chunk_size == 1000
chunk_overlap == 200

PdfSuffix == <<".", "p", "d", "f">>

folder_path == <<"/", "t", "m", "p", "/">>

\* a variant of faiss_index_name: the name carries an identifier of the
\* execution (as get_unique_id would give), so a rebuild adds files
faiss_index_name_unique(style_key) ==
    <<"m", "y", "_", "f", "a", "i", "s", "s", "_">> \o style_key
        \o (IF \E s \in active : run[s].runs = 1 THEN <<"_", "a">> ELSE <<"_", "b">>)

\* a variant of faiss_index_name: one name for every style
faiss_index_name_shared(style_key) == <<"m", "y", "_", "f", "a", "i", "s", "s">>

faiss_index_name(style_key) == <<"m", "y", "_", "f", "a", "i", "s", "s", "_">> \o style_key

faiss_index_file(style_key) == faiss_index_name(style_key) \o <<".", "f", "a", "i", "s", "s">>

faiss_pkl_file(style_key) == faiss_index_name(style_key) \o <<".", "p", "k", "l">>

\* list_objects_v2 is called once, with no ContinuationToken: it returns one
\* page of keys.  S3's page holds 1000 keys; the model's page holds MaxKeys.
MaxKeys == 2

----------------------------------------------------------------------------
(* The environment: the documents an out-of-band producer may have stored *)

\* content of an object or of a scratch file
Pdf(bytes) == [kind |-> "pdf", bytes |-> bytes, chunks |-> <<>>]

SourceDocs ==
    <<"m", "a", "i", "l", "/", "a", ".", "p", "d", "f">> :> Pdf("A") @@
    <<"m", "a", "i", "l", "/", "b", ".", "t", "x", "t">> :> Pdf("T") @@
    <<"m", "a", "i", "l", "/", "c", ".", "P", "D", "F">> :> Pdf("C") @@
    <<"n", "o", "r", "m", "a", "l", "/", "a", ".", "p", "d", "f">> :> Pdf("N") @@
    <<"n", "o", "r", "m", "a", "l", "/", "x", ".", "p", "d", "f">> :> Pdf("X") @@
    <<"r", "e", "p", "o", "r", "t", "/", "e", ".", "p", "d", "f">> :> Pdf("E")

\* the page lengths PyPDFLoader extracts from a file's bytes; "X" is corrupt
\* and "T" is no PDF (the loader raises), "E" is a PDF without text
Readable(bytes) == bytes \in {"A", "C", "N", "E"}

PageLens(bytes) ==
    CASE bytes = "A" -> <<150, 1700>>
      [] bytes = "C" -> <<1000>>
      [] bytes = "N" -> <<300>>
      [] OTHER -> <<>>

----------------------------------------------------------------------------
(* Library calls, by what they return *)

\* PyPDFLoader(local_file).load_and_split(): the file's pages in page order,
\* each with its provenance (source path, page number).  A page's text is kept
\* as its length and whether it is whitespace only (blank); the loader hands
\* on no blank page
load_and_split(local_file, content) ==
    [n \in 1..Len(PageLens(content.bytes)) |->
        [source |-> local_file, page |-> n - 1, len |-> PageLens(content.bytes)[n],
         blank |-> FALSE]]

\* a variant of SplitPage: the last window takes up to chunk_overlap more
RECURSIVE SplitPageOverlong(_, _, _, _)
SplitPageOverlong(page, start, size, overlap) ==
    IF page.len - start <= size + overlap
    THEN <<[source |-> page.source, page |-> page.page, start |-> start,
            len |-> page.len - start]>>
    ELSE <<[source |-> page.source, page |-> page.page, start |-> start, len |-> size]>>
         \o SplitPageOverlong(page, start + (size - overlap), size, overlap)

\* the chunks of one page from offset start on: windows of chunk_size
\* characters, each repeating the last chunk_overlap characters of the one before
RECURSIVE SplitPage(_, _, _, _)
SplitPage(page, start, size, overlap) ==
    IF page.len - start <= size
    THEN <<[source |-> page.source, page |-> page.page, start |-> start,
            len |-> page.len - start]>>
    ELSE <<[source |-> page.source, page |-> page.page, start |-> start, len |-> size]>>
         \o SplitPage(page, start + (size - overlap), size, overlap)

\* split_text: the chunks of every page, in page order; the splitter strips
\* each chunk and drops an empty one, so a blank page gives none
RECURSIVE split_text(_, _, _)
split_text(pages, size, overlap) ==
    IF pages = <<>> THEN <<>>
    ELSE (IF Head(pages).blank THEN <<>> ELSE SplitPage(Head(pages), 0, size, overlap))
         \o split_text(Tail(pages), size, overlap)

\* FAISS.from_documents: one vector per document, in order
from_documents(documents) == [docs |-> documents]

\* the two files save_local writes
FaissFile(vectorstore) == [kind |-> "faiss", bytes |-> "", chunks |-> vectorstore.docs]

PklFile(vectorstore) == [kind |-> "pkl", bytes |-> "", chunks |-> vectorstore.docs]

\* list_objects_v2(Bucket, Prefix): one page of the keys under the prefix
list_objects_v2(prefix) ==
    Take(SelectSeq(SortKeys(DOMAIN objects), LAMBDA k : StartsWith(k, prefix)), MaxKeys)

\* the list comprehension of list_pdfs_in_s3 over a response's keys
PdfKeys(contents) == SelectSeq(contents, LAMBDA k : EndsWith(Lower(k), PdfSuffix))

----------------------------------------------------------------------------
(* The functions of admin.py *)

\* ensure_bucket_exists, given what head_bucket and create_bucket do:
\* head is "ok", "404", "ClientError" (any other error code) or
\* "BotoCoreError" (an exception that is no ClientError, such as a missing
\* credential or an unreachable endpoint, which the except clause lets through)
ensure_bucket_exists(head, create) ==
    CASE head = "ok" ->
            [returns |-> "True", creates |-> FALSE, reports |-> <<>>]
      [] head = "404" /\ create = "ok" ->
            [returns |-> "True", creates |-> TRUE,
             reports |-> <<[kind |-> "success", msg |-> "Created new S3 bucket"]>>]
      [] head = "404" /\ create # "ok" ->
            [returns |-> "False", creates |-> FALSE,
             reports |-> <<[kind |-> "error", msg |-> "Failed to create S3 bucket"]>>]
      [] head = "ClientError" ->
            [returns |-> "False", creates |-> FALSE,
             reports |-> <<[kind |-> "error", msg |-> "Error checking S3 bucket"]>>]
      [] OTHER ->
            [returns |-> "raise", creates |-> FALSE, reports |-> <<>>]

\* a variant of list_pdfs_in_s3: the handler returns the empty list silently
list_pdfs_in_s3_silent(prefix, outcome) ==
    IF outcome = "ok"
    THEN [returns |-> PdfKeys(list_objects_v2(prefix)), reports |-> <<>>]
    ELSE [returns |-> <<>>, reports |-> <<>>]

\* list_pdfs_in_s3, given whether list_objects_v2 answers or raises
list_pdfs_in_s3(prefix, outcome) ==
    IF outcome = "ok"
    THEN [returns |-> PdfKeys(list_objects_v2(prefix)), reports |-> <<>>]
    ELSE [returns |-> <<>>,
          reports |-> <<[kind |-> "error", msg |-> "Error listing PDFs from S3"]>>]

\* the local file download_and_process_pdf downloads a key to
local_file(s3_key) == folder_path \o Basename(s3_key)

\* the keys create_vector_store uploads to
IndexKey(style_key) == faiss_index_file(style_key)

PklKey(style_key) == faiss_pkl_file(style_key)

\* the local files create_vector_store saves and uploads
IndexPath(style_key) == folder_path \o faiss_index_file(style_key)

PklPath(style_key) == folder_path \o faiss_pkl_file(style_key)

----------------------------------------------------------------------------
(* State *)

Sessions == {"s1", "s2"}

NoFiles == [k \in {} |-> Pdf("")]

\* a script execution at its first line.  published is the bucket as the
\* execution found it, called the API and library calls it has made, each
\* with its outcome, failed the phase at which it failed
NewRun(n, bucket) ==
    [pc |-> "ensure_bucket", runs |-> n, ensured |-> "none", style_choice |-> "",
     pdf_files |-> <<>>, i |-> 1, all_pages |-> <<>>, splitted_docs |-> <<>>,
     vectorstore |-> [docs |-> <<>>], result |-> "none", reports |-> <<>>,
     published |-> bucket, called |-> <<>>, failed |-> "", returned |-> {},
     chunk_size |-> chunk_size, chunk_overlap |-> chunk_overlap]

Idle == [NewRun(0, NoFiles) EXCEPT !.pc = "idle"]

\* st.error, st.warning, st.success
Say(r, kind, msg) == [r EXCEPT !.reports = Append(@, [kind |-> kind, msg |-> msg])]

\* a call of the storage or library API, recorded in call order
Call(r, op, arg, out) ==
    [r EXCEPT !.called = Append(@, [op |-> op, arg |-> arg, out |-> out])]

\* an exception no handler catches: the script execution ends there
Raise(r, phase) == [r EXCEPT !.pc = "crashed", !.failed = phase]

Init ==
    /\ active = {"s1"}
    /\ bucketExists \in BOOLEAN
    /\ \E keys \in SUBSET DOMAIN SourceDocs :
          /\ bucketExists \/ keys = {}
          /\ objects = [k \in keys |-> SourceDocs[k]]
    /\ scratch = NoFiles
    /\ run = [s \in Sessions |-> IF s \in active THEN NewRun(1, objects) ELSE Idle]

Set(s, r) == run' = [run EXCEPT ![s] = r]

----------------------------------------------------------------------------
(* main, step by step *)

\* lines 133-135
EnsureBucket(s) ==
    /\ run[s].pc = "ensure_bucket"
    /\ \E head \in (IF bucketExists THEN {"ok", "ClientError", "BotoCoreError"}
                                     ELSE {"404", "ClientError", "BotoCoreError"}),
          create \in {"ok", "error"} :
          LET e == ensure_bucket_exists(head, create)
              h == [Call(run[s], "head_bucket", <<>>, head)
                       EXCEPT !.reports = @ \o e.reports, !.ensured = e.returns]
              r == IF head = "404" THEN Call(h, "create_bucket", <<>>, create) ELSE h
          IN /\ bucketExists' = (bucketExists \/ e.creates)
             /\ Set(s, CASE e.returns = "True" -> [r EXCEPT !.pc = "select_style"]
                         [] e.returns = "False" ->
                              [Say(r, "error", "Failed to ensure S3 bucket exists")
                                  EXCEPT !.pc = "done", !.failed = "ensure_bucket"]
                         [] OTHER -> Raise(r, "ensure_bucket"))
    /\ UNCHANGED <<objects, scratch, active>>

\* lines 138-162
SelectStyle(s) ==
    /\ run[s].pc = "select_style"
    /\ \E choice \in StyleChoices :
          Set(s, [run[s] EXCEPT !.pc = "list_pdfs", !.style_choice = choice])
    /\ UNCHANGED <<bucketExists, objects, scratch, active>>

\* a variant of NoPdfFiles: the early return is missing
NoPdfFilesContinues(r) == [r EXCEPT !.pc = "button"]

\* lines 165-167: no PDF file was listed
NoPdfFiles(r) == [Say(r, "warning", "No PDF files found") EXCEPT !.pc = "done"]

\* lines 163-169
ListPdfs(s) ==
    /\ run[s].pc = "list_pdfs"
    /\ \E outcome \in {"ok", "error"} :
          LET l == list_pdfs_in_s3(prefix_map(run[s].style_choice), outcome)
              r == [Call(run[s], "list_objects_v2", prefix_map(run[s].style_choice), outcome)
                       EXCEPT !.reports = @ \o l.reports, !.pdf_files = l.returns]
          IN Set(s, IF l.returns = <<>> THEN NoPdfFiles(r) ELSE [r EXCEPT !.pc = "button"])
    /\ UNCHANGED <<bucketExists, objects, scratch, active>>

\* lines 171-175: the button is pressed in this execution or it is not; when
\* it is, the loop starts at the first listed file, if there is one
Button(s) ==
    /\ run[s].pc = "button"
    /\ \E pressed \in BOOLEAN :
          Set(s, [run[s] EXCEPT
                    !.pc = IF pressed /\ run[s].pdf_files # <<>> THEN "download" ELSE "done"])
    /\ UNCHANGED <<bucketExists, objects, scratch, active>>

\* a variant of NextDoc: the pages are chunked as soon as a document has given some
NextDocChunksEarly(r) ==
    IF r.all_pages # <<>>
    THEN [r EXCEPT !.pc = "split_text"]
    ELSE IF r.i < Len(r.pdf_files)
    THEN [r EXCEPT !.pc = "download", !.i = @ + 1]
    ELSE [r EXCEPT !.pc = "done"]

\* lines 175 and 182: the next document, or the end of the loop
NextDoc(r) ==
    IF r.i < Len(r.pdf_files)
    THEN [r EXCEPT !.pc = "download", !.i = @ + 1]
    ELSE IF r.all_pages # <<>>
    THEN [r EXCEPT !.pc = "split_text"]
    ELSE [r EXCEPT !.pc = "done"]

\* a variant of DocumentFailed: a document's exception ends the run
DocumentFailedAborts(r) == [Say(r, "error", "Error processing") EXCEPT !.pc = "done"]

\* lines 124-126 and 178: the document's exception is reported, None is
\* returned and the loop goes on
DocumentFailed(r) == NextDoc(Say(r, "error", "Error processing"))

\* a variant of DocumentLoaded: the new pages are put in front
DocumentLoadedPrepends(r, pages) ==
    IF pages # <<>>
    THEN NextDoc([r EXCEPT !.all_pages = pages \o @])
    ELSE NextDoc(r)

\* lines 178-180: pages is a list, added when it is not empty
DocumentLoaded(r, pages) ==
    IF pages # <<>>
    THEN NextDoc([r EXCEPT !.all_pages = @ \o pages])
    ELSE NextDoc(r)

\* lines 117-119, and 124-126 when the download raises
Download(s) ==
    /\ run[s].pc = "download"
    /\ LET key == run[s].pdf_files[run[s].i]
       IN \/ /\ key \in DOMAIN objects
             /\ scratch' = Put(scratch, local_file(key), objects[key])
             /\ Set(s, [Call(run[s], "download_file", key, "ok") EXCEPT !.pc = "load_pdf"])
          \/ /\ UNCHANGED scratch
             /\ Set(s, DocumentFailed(Call(run[s], "download_file", key, "error")))
    /\ UNCHANGED <<bucketExists, objects, active>>

\* lines 121-126 and 178-180: the loader reads the local file
LoadPdf(s) ==
    /\ run[s].pc = "load_pdf"
    /\ LET key == run[s].pdf_files[run[s].i]
           content == scratch[local_file(key)]
       IN Set(s, IF Readable(content.bytes)
                 THEN DocumentLoaded(Call(run[s], "load_and_split", key, "ok"),
                                     load_and_split(local_file(key), content))
                 ELSE DocumentFailed(Call(run[s], "load_and_split", key, "error")))
    /\ UNCHANGED <<bucketExists, objects, scratch, active>>

\* lines 184-192
SplitText(s) ==
    /\ run[s].pc = "split_text"
    /\ Set(s, [Call(run[s], "split_text", <<>>, "ok") EXCEPT
                  !.pc = "from_documents",
                  !.splitted_docs = split_text(run[s].all_pages, run[s].chunk_size,
                                               run[s].chunk_overlap)])
    /\ UNCHANGED <<bucketExists, objects, scratch, active>>

\* a variant of EmbeddingFailed: the exception is swallowed and the index is
\* built from what has been embedded
EmbeddingFailedSkipped(r) == [r EXCEPT !.pc = "save_local", !.failed = "embed"]

\* line 69 when an embedding request raises: nothing catches the exception
EmbeddingFailed(r) == Raise(r, "embed")

\* line 69, called from line 196: the embedding of every chunk
FromDocuments(s) ==
    /\ run[s].pc = "from_documents"
    /\ \/ Set(s, [Call(run[s], "from_documents", <<>>, "ok") EXCEPT
                     !.pc = "save_local",
                     !.vectorstore = from_documents(run[s].splitted_docs)])
       \/ Set(s, EmbeddingFailed(Call(run[s], "from_documents", <<>>, "error")))
    /\ UNCHANGED <<bucketExists, objects, scratch, active>>

\* lines 70-78
SaveLocal(s) ==
    /\ run[s].pc = "save_local"
    /\ LET style_key == style_key_map(run[s].style_choice)
       IN \/ /\ scratch' = Put(Put(scratch, IndexPath(style_key), FaissFile(run[s].vectorstore)),
                               PklPath(style_key), PklFile(run[s].vectorstore))
             /\ Set(s, [Call(run[s], "save_local", <<>>, "ok") EXCEPT !.pc = "upload_index"])
          \/ /\ UNCHANGED scratch
             /\ Set(s, Raise(Call(run[s], "save_local", <<>>, "error"), "build"))
    /\ UNCHANGED <<bucketExists, objects, active>>

\* a variant of UploadFailed: the handler returns True
UploadFailedReturnsTrue(r) ==
    [Say(r, "error", "Error uploading to S3") EXCEPT
        !.pc = "report", !.result = "True", !.failed = "persist"]

\* lines 93-95: the handler of either upload's exception
UploadFailed(r) ==
    [Say(r, "error", "Error uploading to S3") EXCEPT
        !.pc = "report", !.result = "False", !.failed = "persist"]

\* lines 82-86
UploadIndex(s) ==
    /\ run[s].pc = "upload_index"
    /\ LET style_key == style_key_map(run[s].style_choice)
       IN \/ /\ objects' = Put(objects, IndexKey(style_key), scratch[IndexPath(style_key)])
             /\ Set(s, [Call(run[s], "upload_file", IndexKey(style_key), "ok")
                           EXCEPT !.pc = "upload_pkl"])
          \/ /\ UNCHANGED objects
             /\ Set(s, UploadFailed(Call(run[s], "upload_file", IndexKey(style_key), "error")))
    /\ UNCHANGED <<bucketExists, scratch, active>>

\* lines 87-92
UploadPkl(s) ==
    /\ run[s].pc = "upload_pkl"
    /\ LET style_key == style_key_map(run[s].style_choice)
       IN \/ /\ objects' = Put(objects, PklKey(style_key), scratch[PklPath(style_key)])
             /\ Set(s, [Call(run[s], "upload_file", PklKey(style_key), "ok")
                           EXCEPT !.pc = "report", !.result = "True"])
          \/ /\ UNCHANGED objects
             /\ Set(s, UploadFailed(Call(run[s], "upload_file", PklKey(style_key), "error")))
    /\ UNCHANGED <<bucketExists, scratch, active>>

\* line 196: what create_vector_store hands back to main, kept with the number
\* of files the call had uploaded (history of the session, for comparing calls)
Returned(r) ==
    [r EXCEPT !.returned = @ \cup
        {[result |-> r.result,
          uploaded |-> Cardinality({n \in 1..Len(r.called) :
                          r.called[n].op = "upload_file" /\ r.called[n].out = "ok"})]}]

\* lines 196-201
Report(s) ==
    /\ run[s].pc = "report"
    /\ Set(s, IF run[s].result = "True"
              THEN [Say(Returned(run[s]), "success", "PDFs processed and FAISS index created")
                       EXCEPT !.pc = "done"]
              ELSE [Say(Returned(run[s]), "error", "Error creating vector store")
                       EXCEPT !.pc = "done"])
    /\ UNCHANGED <<bucketExists, objects, scratch, active>>

\* the next interaction with the page executes the script again from the top
Rerun(s) ==
    /\ run[s].pc \in {"done", "crashed"}
    /\ run[s].runs < MaxRuns
    /\ Set(s, [NewRun(run[s].runs + 1, objects) EXCEPT !.returned = run[s].returned])
    /\ UNCHANGED <<bucketExists, objects, scratch, active>>

Next ==
    \/ \E s \in active : EnsureBucket(s)
    \/ \E s \in active : SelectStyle(s)
    \/ \E s \in active : ListPdfs(s)
    \/ \E s \in active : Button(s)
    \/ \E s \in active : Download(s)
    \/ \E s \in active : LoadPdf(s)
    \/ \E s \in active : SplitText(s)
    \/ \E s \in active : FromDocuments(s)
    \/ \E s \in active : SaveLocal(s)
    \/ \E s \in active : UploadIndex(s)
    \/ \E s \in active : UploadPkl(s)
    \/ \E s \in active : Report(s)
    \/ \E s \in active : Rerun(s)

Spec == Init /\ [][Next]_vars

----------------------------------------------------------------------------
(* Two sessions of the page at once: each executes the script once, their
   steps interleaved, over one bucket and one scratch directory *)

InitInterleaved ==
    /\ active = Sessions
    /\ bucketExists = TRUE
    /\ objects = SourceDocs
    /\ scratch = NoFiles
    /\ run = [s \in Sessions |-> NewRun(1, objects)]

NextInterleaved ==
    \/ \E s \in active : EnsureBucket(s)
    \/ \E s \in active : SelectStyle(s)
    \/ \E s \in active : ListPdfs(s)
    \/ \E s \in active : Button(s)
    \/ \E s \in active : Download(s)
    \/ \E s \in active : LoadPdf(s)
    \/ \E s \in active : SplitText(s)
    \/ \E s \in active : FromDocuments(s)
    \/ \E s \in active : SaveLocal(s)
    \/ \E s \in active : UploadIndex(s)
    \/ \E s \in active : UploadPkl(s)
    \/ \E s \in active : Report(s)

SpecInterleaved == InitInterleaved /\ [][NextInterleaved]_vars

----------------------------------------------------------------------------
(* split_text taken alone: one call over any pages and parameters *)

\* the texts a page can hold: a length, and whether it is whitespace only
PageTexts ==
    {[len |-> 0, blank |-> TRUE]}
    \cup {[len |-> l, blank |-> b] : l \in 1..MaxPageLen, b \in BOOLEAN}

PageLists == UNION {[1..n -> PageTexts] : n \in 0..MaxPages}

\* the pages of one document with the given texts
PagesOf(texts) ==
    [n \in 1..Len(texts) |->
        [source |-> folder_path \o <<"d">>, page |-> n - 1,
         len |-> texts[n].len, blank |-> texts[n].blank]]

\* an execution about to call split_text (line 184) with pages and parameters
\* of any value, chunk_overlap below chunk_size
InitSplit ==
    /\ active = {"s1"}
    /\ bucketExists = TRUE
    /\ objects = NoFiles
    /\ scratch = NoFiles
    /\ \E texts \in PageLists, size \in 1..MaxChunkSize :
          \E overlap \in 0..(size - 1) :
              run = [s \in Sessions |->
                       IF s \in active
                       THEN [NewRun(1, NoFiles) EXCEPT
                                !.pc = "split_text", !.all_pages = PagesOf(texts),
                                !.chunk_size = size, !.chunk_overlap = overlap]
                       ELSE Idle]

NextSplit == \E s \in active : SplitText(s)

SpecSplit == InitSplit /\ [][NextSplit]_vars

----------------------------------------------------------------------------
(* Vocabulary of the properties *)

\* the execution has made this call with this outcome
Made(r, op, arg, out) ==
    \E n \in 1..Len(r.called) : r.called[n] = [op |-> op, arg |-> arg, out |-> out]

\* the arguments of the execution's calls of op, in call order
ArgsOf(r, op) ==
    LET calls == SelectSeq(r.called, LAMBDA c : c.op = op)
    IN [n \in 1..Len(calls) |-> calls[n].arg]

\* the operator has been shown this message
Reported(r, kind, msg) ==
    \E n \in 1..Len(r.reports) : r.reports[n] = [kind |-> kind, msg |-> msg]

\* the execution has selected a style
Selected(r) == r.style_choice \in StyleChoices

\* the two published files of a style are there and are those of one build
PairOfOneBuild(style_key) ==
    /\ IndexKey(style_key) \in DOMAIN objects
    /\ PklKey(style_key) \in DOMAIN objects
    /\ objects[IndexKey(style_key)].kind = "faiss"
    /\ objects[PklKey(style_key)].kind = "pkl"
    /\ objects[IndexKey(style_key)].chunks = objects[PklKey(style_key)].chunks

\* a style has no published file at all
NothingPublished(style_key) ==
    /\ IndexKey(style_key) \notin DOMAIN objects
    /\ PklKey(style_key) \notin DOMAIN objects

----------------------------------------------------------------------------
(* C1 *)

\* C1: persist is all-or-nothing.  When a style had a published pair at the
\* start of the execution, the index upload succeeded and the metadata upload
\* then failed, both published files are, once the execution has ended, the
\* ones it found.
C1_PersistAllOrNothing ==
    \A s \in active :
        LET r == run[s]
            k == style_key_map(r.style_choice)
        IN (/\ r.pc = "done"
            /\ Selected(r)
            /\ IndexKey(k) \in DOMAIN r.published
            /\ PklKey(k) \in DOMAIN r.published
            /\ Made(r, "upload_file", IndexKey(k), "ok")
            /\ Made(r, "upload_file", PklKey(k), "error"))
           => /\ objects[IndexKey(k)] = r.published[IndexKey(k)]
              /\ objects[PklKey(k)] = r.published[PklKey(k)]

----------------------------------------------------------------------------
(* C2 *)

\* C2: in every state of the bucket, the states between the two uploads
\* included, a reader of a style's two files finds either none of them or
\* the index file and the metadata file of one build.
C2_ReaderSeesOneBuild ==
    \A k \in StyleKeys : NothingPublished(k) \/ PairOfOneBuild(k)

----------------------------------------------------------------------------
(* C3 *)

\* the loop over the listed files is over
AfterLoop(r) ==
    \/ r.pc \in {"split_text", "from_documents", "save_local", "upload_index",
                 "upload_pkl", "report"}
    \/ r.pc \in {"done", "crashed"} /\ ArgsOf(r, "download_file") # <<>>

\* the listed documents that loaded: downloaded, read by the loader, with pages
LoadedKeys(r) ==
    SelectSeq(r.pdf_files,
              LAMBDA key : /\ Made(r, "download_file", key, "ok")
                           /\ Made(r, "load_and_split", key, "ok")
                           /\ PageLens(objects[key].bytes) # <<>>)

\* a listed document that did not load
FailedKey(r, key) ==
    \/ Made(r, "download_file", key, "error")
    \/ Made(r, "load_and_split", key, "error")

\* the pages of the stored documents under the given keys, in key order
RECURSIVE PagesOfKeys(_)
PagesOfKeys(keys) ==
    IF keys = <<>> THEN <<>>
    ELSE load_and_split(local_file(Head(keys)), objects[Head(keys)])
         \o PagesOfKeys(Tail(keys))

\* the chunks of an index built from the pages of the given documents
ChunksOfKeys(keys) == split_text(PagesOfKeys(keys), chunk_size, chunk_overlap)

\* C3: a document that fails to download or to parse is skipped and the run
\* goes on.  Once the loop is over every listed document has been offered to
\* the loader, the accumulated pages are those of exactly the documents that
\* loaded, a run in which a document loaded ends with the outcome of the
\* persist step unless a later phase raised, and the files of a successful
\* run hold the chunks of exactly the documents that loaded.
C3_FailedDocumentsAreSkipped ==
    \A s \in active :
        LET r == run[s]
            k == style_key_map(r.style_choice)
        IN /\ AfterLoop(r) => ArgsOf(r, "download_file") = r.pdf_files
           /\ AfterLoop(r) => r.all_pages = PagesOfKeys(LoadedKeys(r))
           /\ (r.pc = "done" /\ LoadedKeys(r) # <<>>) => r.result \in {"True", "False"}
           /\ (r.pc = "crashed" /\ AfterLoop(r)) => r.failed \in {"embed", "build"}
           /\ r.result = "True" =>
                 /\ objects[IndexKey(k)] = FaissFile(from_documents(ChunksOfKeys(LoadedKeys(r))))
                 /\ objects[PklKey(k)] = PklFile(from_documents(ChunksOfKeys(LoadedKeys(r))))

\* the first of two listed documents failed, the second loaded, and the run
\* ended in success
C3_SkippedThenProcessed ==
    \E s \in active :
        /\ run[s].pc = "done"
        /\ run[s].result = "True"
        /\ Len(run[s].pdf_files) = 2
        /\ FailedKey(run[s], run[s].pdf_files[1])
        /\ LoadedKeys(run[s]) = <<run[s].pdf_files[2]>>

----------------------------------------------------------------------------
(* C4 *)

\* the PDF keys stored under a prefix
PdfKeysUnder(prefix) ==
    {k \in DOMAIN objects : StartsWith(k, prefix) /\ EndsWith(Lower(k), PdfSuffix)}

\* the execution has listed its prefix
Listed(r) == ArgsOf(r, "list_objects_v2") # <<>>

\* C4: when the selected prefix holds no PDF key, the execution ends after the
\* listing with the warning: its last call is the listing, nothing is
\* downloaded, chunked or embedded, and the bucket is as the execution found it.
C4_NoPdfStopsAfterListing ==
    \A s \in active :
        LET r == run[s]
        IN (Listed(r) /\ PdfKeysUnder(prefix_map(r.style_choice)) = {})
           => /\ r.pc = "done"
              /\ r.reports[Len(r.reports)] = [kind |-> "warning", msg |-> "No PDF files found"]
              /\ r.called[Len(r.called)].op = "list_objects_v2"
              /\ r.all_pages = <<>>
              /\ r.splitted_docs = <<>>
              /\ objects = r.published

\* the listing of a prefix that holds an object but no PDF answered, and the
\* execution has ended
C4_PrefixWithoutPdfListed ==
    \E s \in active :
        /\ run[s].pc = "done"
        /\ run[s].style_choice = "Email Style"
        /\ Made(run[s], "list_objects_v2", prefix_map("Email Style"), "ok")
        /\ \E k \in DOMAIN objects : StartsWith(k, prefix_map("Email Style"))
        /\ PdfKeysUnder(prefix_map("Email Style")) = {}

----------------------------------------------------------------------------
(* C5 *)

SuccessReported(r) == Reported(r, "success", "PDFs processed and FAISS index created")

\* an upload of the execution failed
UploadError(r) ==
    \E n \in 1..Len(r.called) : r.called[n].op = "upload_file" /\ r.called[n].out = "error"

\* C5: success is reported only when the upload of the index file and the
\* upload of the metadata file have both succeeded; an execution in which an
\* upload failed never reports success and ends reporting the failure.
C5_SuccessOnlyIfBothUploaded ==
    \A s \in active :
        LET r == run[s]
            k == style_key_map(r.style_choice)
        IN /\ SuccessReported(r) =>
                 /\ Made(r, "upload_file", IndexKey(k), "ok")
                 /\ Made(r, "upload_file", PklKey(k), "ok")
           /\ UploadError(r) => ~SuccessReported(r)
           /\ (UploadError(r) /\ r.pc = "done") =>
                 Reported(r, "error", "Error creating vector store")

\* the index file was uploaded, the metadata upload failed, and the execution
\* has ended
C5_SecondUploadFailed ==
    \E s \in active :
        /\ run[s].pc = "done"
        /\ Selected(run[s])
        /\ Made(run[s], "upload_file", IndexKey(style_key_map(run[s].style_choice)), "ok")
        /\ Made(run[s], "upload_file", PklKey(style_key_map(run[s].style_choice)), "error")

----------------------------------------------------------------------------
(* C6 *)

\* C6: an index is built from the embeddings of all chunks or not at all.
\* When the embedding raises, the execution ends there, uploads nothing and
\* leaves the bucket as it found it; an uploaded file holds every chunk.
C6_EmbeddingFailureUploadsNothing ==
    \A s \in active :
        LET r == run[s]
            k == style_key_map(r.style_choice)
        IN /\ Made(r, "from_documents", <<>>, "error") =>
                 /\ r.pc = "crashed"
                 /\ ArgsOf(r, "upload_file") = <<>>
                 /\ objects = r.published
           /\ (Selected(r) /\ Made(r, "upload_file", IndexKey(k), "ok")) =>
                 objects[IndexKey(k)].chunks = r.splitted_docs
           /\ (Selected(r) /\ Made(r, "upload_file", PklKey(k), "ok")) =>
                 objects[PklKey(k)].chunks = r.splitted_docs

\* the embedding raised in an execution for a style that has a published pair
C6_EmbeddingFailedOverPublished ==
    \E s \in active :
        /\ Made(run[s], "from_documents", <<>>, "error")
        /\ run[s].published = objects
        /\ PairOfOneBuild(style_key_map(run[s].style_choice))

----------------------------------------------------------------------------
(* C7 *)

\* the phases a message shown to the operator can be read to name
NamesPhase(msg, phase) ==
    \/ msg = "Error uploading to S3" /\ phase = "persist"
    \/ msg = "Error creating vector store" /\ phase \in {"embed", "build", "persist"}

\* C7: a failure at the chunk, embed, build or persist phase ends the run, no
\* later phase executes, and an error naming the phase is reported.
C7_LateFailureTerminalAndReported ==
    \A s \in active :
        LET r == run[s]
        IN r.failed \in {"chunk", "embed", "build", "persist"}
           => /\ r.pc \in {"crashed", "report", "done"}
              /\ r.called[Len(r.called)].out = "error"
              /\ \E n \in 1..Len(r.reports) :
                    /\ r.reports[n].kind = "error"
                    /\ NamesPhase(r.reports[n].msg, r.failed)

----------------------------------------------------------------------------
(* C8 *)

\* the operations of an execution's calls
OpsOf(r) == {r.called[n].op : n \in 1..Len(r.called)}

\* C8: ensure_bucket_exists creates the bucket only after "not found"; on any
\* other failure of the check, or when the creation fails, it reports an error
\* and returns False, and the execution lists, downloads and uploads nothing;
\* it returns True exactly when the bucket exists on return.
C8_EnsureBucketExists ==
    \A s \in active :
        LET r == run[s]
        IN r.ensured # "none"
           => /\ "create_bucket" \in OpsOf(r) => Made(r, "head_bucket", <<>>, "404")
              /\ (\/ Made(r, "head_bucket", <<>>, "ClientError")
                  \/ Made(r, "head_bucket", <<>>, "BotoCoreError")
                  \/ Made(r, "create_bucket", <<>>, "error"))
                 => /\ r.ensured = "False"
                    /\ \E n \in 1..Len(r.reports) : r.reports[n].kind = "error"
                    /\ OpsOf(r) \subseteq {"head_bucket", "create_bucket"}
              /\ (r.ensured = "True") <=> bucketExists

----------------------------------------------------------------------------
(* C9 *)

\* the stored artifact files of one kind whose name is that of a style
ArtifactKeys(style_key, kind) ==
    {k \in DOMAIN objects :
        /\ objects[k].kind = kind
        /\ StartsWith(k, <<"m", "y", "_", "f", "a", "i", "s", "s", "_">> \o style_key)}

\* C9: the build replaces and does not merge.  The bucket never holds more
\* than one index file and one metadata file per style, and after a successful
\* run the style's pair holds the chunks of the documents that loaded in that
\* run and nothing else, each of them a document stored under the style's own
\* prefix.
C9_FullReplace ==
    /\ \A k \in StyleKeys :
          /\ Cardinality(ArtifactKeys(k, "faiss")) <= 1
          /\ Cardinality(ArtifactKeys(k, "pkl")) <= 1
    /\ \A s \in active :
          LET r == run[s]
              k == style_key_map(r.style_choice)
              loaded == LoadedKeys(r)
          IN r.result = "True" =>
                /\ ArtifactKeys(k, "faiss") = {IndexKey(k)}
                /\ ArtifactKeys(k, "pkl") = {PklKey(k)}
                /\ objects[IndexKey(k)].chunks = ChunksOfKeys(loaded)
                /\ objects[PklKey(k)].chunks = ChunksOfKeys(loaded)
                /\ \A n \in 1..Len(loaded) :
                      StartsWith(loaded[n], prefix_map(r.style_choice))

\* a successful run has replaced a pair published earlier by a different one
C9_PairReplaced ==
    \E s \in active :
        LET r == run[s]
            k == style_key_map(r.style_choice)
        IN /\ r.result = "True"
           /\ IndexKey(k) \in DOMAIN r.published
           /\ PklKey(k) \in DOMAIN r.published
           /\ r.published[IndexKey(k)] # objects[IndexKey(k)]
           /\ r.published[PklKey(k)] # objects[PklKey(k)]

----------------------------------------------------------------------------
(* C10 *)

\* C10: a listing that answers returns, in the store's order, exactly the
\* stored keys that start with the prefix and end in ".pdf" whatever the
\* case; an empty result is no error.
C10_ListsExactlyThePdfKeys ==
    \A s \in active :
        LET r == run[s]
            prefix == prefix_map(r.style_choice)
        IN (Selected(r) /\ Made(r, "list_objects_v2", prefix, "ok"))
           => /\ r.pdf_files =
                    SelectSeq(SortKeys(DOMAIN objects),
                              LAMBDA k : StartsWith(k, prefix) /\ EndsWith(Lower(k), PdfSuffix))
              /\ r.pdf_files = <<>> =>
                    \A n \in 1..Len(r.reports) : r.reports[n].kind # "error"

----------------------------------------------------------------------------
(* C11 *)

\* the phase a call belongs to: 1 list, 2 load, 3 chunk, 4 embed, 5 build,
\* 6 persist; 0 is the check of the bucket
PhaseOf(op) ==
    CASE op = "list_objects_v2" -> 1
      [] op \in {"download_file", "load_and_split"} -> 2
      [] op = "split_text" -> 3
      [] op = "from_documents" -> 4
      [] op = "save_local" -> 5
      [] op = "upload_file" -> 6
      [] OTHER -> 0

\* every listed document has been loaded or skipped: each was downloaded, and
\* each downloaded one was handed to the loader
EveryDocumentHandled(r) ==
    /\ ArgsOf(r, "download_file") = r.pdf_files
    /\ \A n \in 1..Len(r.pdf_files) :
          Made(r, "download_file", r.pdf_files[n], "ok")
          => \/ Made(r, "load_and_split", r.pdf_files[n], "ok")
             \/ Made(r, "load_and_split", r.pdf_files[n], "error")

\* C11: within one execution the phases follow one another in the order list,
\* load, chunk, embed, build, persist and none starts before the one before it
\* is over: the calls are in phase order, later phases follow only successful
\* earlier ones, chunking starts when every listed document has been loaded or
\* skipped, and uploading starts when every chunk is embedded and both files
\* are saved locally.
C11_PhasesInOrder ==
    \A s \in active :
        LET r == run[s]
            k == style_key_map(r.style_choice)
        IN /\ \A m, n \in 1..Len(r.called) :
                 m < n => PhaseOf(r.called[m].op) <= PhaseOf(r.called[n].op)
           /\ \A n \in 2..Len(r.called) :
                 PhaseOf(r.called[n].op) >= 3 =>
                    /\ PhaseOf(r.called[n - 1].op) >= PhaseOf(r.called[n].op) - 1
                    /\ PhaseOf(r.called[n - 1].op) >= 3 => r.called[n - 1].out = "ok"
           /\ "split_text" \in OpsOf(r) => EveryDocumentHandled(r)
           /\ "upload_file" \in OpsOf(r) =>
                 /\ Made(r, "from_documents", <<>>, "ok")
                 /\ Made(r, "save_local", <<>>, "ok")
                 /\ r.vectorstore.docs = split_text(r.all_pages, chunk_size, chunk_overlap)
                 /\ scratch[IndexPath(k)] = FaissFile(r.vectorstore)
                 /\ scratch[PklPath(k)] = PklFile(r.vectorstore)

\* an execution went through every phase over two listed documents
C11_AllPhasesDone ==
    \E s \in active :
        /\ run[s].pc = "done"
        /\ run[s].result = "True"
        /\ Len(run[s].pdf_files) = 2
        /\ {PhaseOf(run[s].called[n].op) : n \in 1..Len(run[s].called)} = 0..6

----------------------------------------------------------------------------
(* C12 *)

\* C12: a call of the upload step that left one of the two files uploaded and
\* a call that uploaded neither hand different results to the caller.
C12_PartialDistinctFromTotal ==
    \A s \in active :
        \A a, b \in run[s].returned :
            (a.uploaded = 1 /\ b.uploaded = 0) => a.result # b.result

----------------------------------------------------------------------------
(* C13 *)

\* the button was pressed over a non-empty listing: the loop of line 175 ran
Triggered(r) == r.pdf_files # <<>> /\ "download_file" \in OpsOf(r)

\* C13: every triggered execution that found a PDF key ends with a success or
\* an error told to the operator (any st.success or st.error counts here, the
\* per-document errors included).
C13_TriggeredRunReportsOutcome ==
    \A s \in active :
        (run[s].pc \in {"done", "crashed"} /\ Triggered(run[s]))
        => \E n \in 1..Len(run[s].reports) :
              run[s].reports[n].kind \in {"success", "error"}

----------------------------------------------------------------------------
(* C14 *)

\* the two keys a style's execution uploads to
KeyPair(style_key) == {IndexKey(style_key), PklKey(style_key)}

\* a key at the root of the bucket: no "/" in it
BucketRoot(key) == \A n \in 1..Len(key) : key[n] # "/"

\* C14: an execution for a style uploads to two bucket-root keys fixed by the
\* style, in the order index then metadata; different styles have disjoint
\* pairs; and every other object, the source PDFs and the files of the other
\* styles, is as the execution found it: none written, none deleted.
C14_WritesOnlyItsPair ==
    /\ \A a \in StyleKeys :
          /\ IndexKey(a) # PklKey(a)
          /\ BucketRoot(IndexKey(a)) /\ BucketRoot(PklKey(a))
          /\ \A b \in StyleKeys \ {a} : KeyPair(a) \cap KeyPair(b) = {}
    /\ \A s \in active :
          LET r == run[s]
              k == style_key_map(r.style_choice)
          IN IF ~Selected(r)
             THEN objects = r.published
             ELSE /\ ArgsOf(r, "upload_file") \in
                        {<<>>, <<IndexKey(k)>>, <<IndexKey(k), PklKey(k)>>}
                  /\ r.result = "True" =>
                        ArgsOf(r, "upload_file") = <<IndexKey(k), PklKey(k)>>
                  /\ DOMAIN r.published \subseteq DOMAIN objects
                  /\ DOMAIN objects \subseteq DOMAIN r.published \cup KeyPair(k)
                  /\ \A key \in DOMAIN r.published \ KeyPair(k) :
                        objects[key] = r.published[key]

\* a style's execution has uploaded its pair into a bucket that holds the
\* pair of another style and source PDFs
C14_PairUploadedBesideAnother ==
    \E s \in active :
        LET r == run[s]
            k == style_key_map(r.style_choice)
        IN /\ r.result = "True"
           /\ KeyPair(k) \subseteq DOMAIN objects
           /\ \E b \in StyleKeys \ {k} : KeyPair(b) \subseteq DOMAIN r.published
           /\ \E key \in DOMAIN r.published : objects[key].kind = "pdf"

----------------------------------------------------------------------------
(* C15 *)

\* the place in the listing of the document a page was read from
ListingIndex(r, page) ==
    CHOOSE n \in 1..Len(r.pdf_files) : local_file(r.pdf_files[n]) = page.source

\* C15: the pages handed to split_text are the pages of the documents that
\* loaded and no others; pages of different documents stand in listing order,
\* pages of one document in ascending page order, each once; and for every
\* loaded document the pages taken from it are the loader's result as it was.
C15_PagesInListingOrder ==
    \A s \in active :
        LET r == run[s]
            loaded == LoadedKeys(r)
            sources == {local_file(loaded[n]) : n \in 1..Len(loaded)}
        IN "split_text" \in OpsOf(r) =>
              /\ \A n \in 1..Len(r.all_pages) : r.all_pages[n].source \in sources
              /\ \A m, n \in 1..Len(r.all_pages) :
                    m < n =>
                       LET a == r.all_pages[m]
                           b == r.all_pages[n]
                       IN /\ ListingIndex(r, a) <= ListingIndex(r, b)
                          /\ a.source = b.source => a.page < b.page
              /\ \A n \in 1..Len(loaded) :
                    SelectSeq(r.all_pages,
                              LAMBDA page : page.source = local_file(loaded[n]))
                    = load_and_split(local_file(loaded[n]), objects[loaded[n]])

\* split_text was handed the pages of two loaded documents, one of two pages
C15_TwoDocumentsChunked ==
    \E s \in active :
        /\ "split_text" \in OpsOf(run[s])
        /\ Len(LoadedKeys(run[s])) = 2
        /\ Len(run[s].all_pages) = 3

----------------------------------------------------------------------------
(* C16 *)

\* C16: a successful execution covers every PDF under the style's prefix,
\* however many objects the prefix holds: each stored key under the prefix
\* that ends in ".pdf" is in the listing and was offered to the loader.
C16_SuccessCoversEveryPdf ==
    \A s \in active :
        LET r == run[s]
        IN SuccessReported(r) =>
              \A key \in PdfKeysUnder(prefix_map(r.style_choice)) :
                  /\ \E n \in 1..Len(r.pdf_files) : r.pdf_files[n] = key
                  /\ \E n \in 1..Len(r.called) :
                        /\ r.called[n].op = "download_file"
                        /\ r.called[n].arg = key

----------------------------------------------------------------------------
(* C17 *)

\* C17: when the listing of the style's prefix raises, the execution reports
\* the listing error and ends there: the listing call is its last call, so
\* nothing is downloaded and nothing uploaded, and the bucket is as it was
\* found.
C17_ListingFailureIsFatal ==
    \A s \in active :
        LET r == run[s]
        IN (Selected(r) /\ Made(r, "list_objects_v2", prefix_map(r.style_choice), "error"))
           => /\ Reported(r, "error", "Error listing PDFs from S3")
              /\ r.pc = "done"
              /\ r.pdf_files = <<>>
              /\ r.called[Len(r.called)].op = "list_objects_v2"
              /\ OpsOf(r) \cap {"download_file", "upload_file"} = {}
              /\ r.result = "none"
              /\ objects = r.published

\* the listing raised over a prefix that holds PDF files
C17_ListingFailedOverPdfs ==
    \E s \in active :
        /\ Selected(run[s])
        /\ Made(run[s], "list_objects_v2", prefix_map(run[s].style_choice), "error")
        /\ PdfKeysUnder(prefix_map(run[s].style_choice)) # {}

----------------------------------------------------------------------------
(* C18 *)

\* the chunks split_text made of one page
ChunksOfPage(r, page) ==
    SelectSeq(r.splitted_docs,
              LAMBDA c : c.source = page.source /\ c.page = page.page)

\* split_text has returned, called with chunk_overlap below chunk_size
SplitReturned(r) == "split_text" \in OpsOf(r) /\ r.chunk_overlap < r.chunk_size

\* no chunk is longer than chunk_size characters
NoChunkTooLong(r) ==
    \A n \in 1..Len(r.splitted_docs) : r.splitted_docs[n].len <= r.chunk_size

----------------------------------------------------------------------------
(* C19 *)

\* the pages of the documents stored under a prefix
PagesUnder(prefix) ==
    UNION {{load_and_split(local_file(key), objects[key])[n] :
               n \in 1..Len(load_and_split(local_file(key), objects[key]))} :
           key \in PdfKeysUnder(prefix)}

\* no other session works on the style of session s
OwnStyle(s) ==
    /\ Selected(run[s])
    /\ \A t \in active \ {s} : run[t].style_choice # run[s].style_choice

\* C19: when executions for different styles interleave on the one scratch
\* directory, every page an execution has read is a page of a document stored
\* under its own style's prefix, and the index it has uploaded holds the
\* chunks of those pages, as it saved them.
C19_InterleavedRunsIsolated ==
    \A s \in active :
        LET r == run[s]
            k == style_key_map(r.style_choice)
        IN OwnStyle(s) =>
              /\ \A n \in 1..Len(r.all_pages) :
                    r.all_pages[n] \in PagesUnder(prefix_map(r.style_choice))
              /\ Made(r, "upload_file", IndexKey(k), "ok") =>
                    objects[IndexKey(k)] = FaissFile(from_documents(r.splitted_docs))

====
